---------------------------- MODULE Spec2Model ----------------------------
(***************************************************************************)
(* Model of wrcli.py: RecordInterface, the asyncio protocol that records a *)
(* session with the Water Rower serial interface.                          *)
(*                                                                         *)
(* Bytes are integers (their code), text is a sequence of one-character    *)
(* strings, a Python dict is a function from its keys to its values, and   *)
(* time.time() is an integer number of clock ticks that never decreases.   *)
(***************************************************************************)
EXTENDS Integers, Sequences, FiniteSets, TLC

(***************************************************************************)
(* Bounds of the model.                                                    *)
(***************************************************************************)
\* the last clock value a handler may read
MaxTime == 3
\* the most calls of data_received and end_session in one session
MaxCalls == 2
\* the most messages the device puts on the wire in the framing runs
MaxStream == 2

(***************************************************************************)
(* Bytes and text.                                                         *)
(***************************************************************************)
\* the code points the model uses: <<byte, character>>
CodeTable ==
  { <<10, "\n">>, <<13, "\r">>, <<32, " ">>,
    <<48, "0">>, <<49, "1">>, <<52, "4">>, <<53, "5">>, <<57, "9">>,
    <<63, "?">>, <<65, "A">>, <<66, "B">>, <<69, "E">>, <<71, "G">>,
    <<73, "I">>, <<78, "N">>, <<80, "P">>, <<82, "R">>, <<83, "S">>,
    <<84, "T">>, <<85, "U">>, <<86, "V">> }

\* the table read in both directions
OrdOf == [c \in { p[2] : p \in CodeTable } |->
            (CHOOSE p \in CodeTable : p[2] = c)[1]]
ChrOf == [b \in { p[1] : p \in CodeTable } |->
            (CHOOSE p \in CodeTable : p[1] = b)[2]]

\* the byte of an ASCII character, as in a b'...' literal
Ord(c) == OrdOf[c]

\* the character of an ASCII byte
Chr(b) == ChrOf[b]

\* a bytes literal b'...'
Bytes(text) == [i \in 1..Len(text) |-> Ord(text[i])]

\* a byte that no UTF-8 text contains (0xFF)
BadByte == 255

\* bytes.decode('UTF-8') succeeds: every byte is ASCII (the one multi-byte
\* lead the model feeds, 0xFF, is invalid wherever it stands)
Decodable(data) == \A i \in 1..Len(data) : data[i] < 128

\* bytes.decode('UTF-8') of decodable bytes
decode(data) == [i \in 1..Len(data) |-> Chr(data[i])]

\* the characters str.strip() removes, among those of CodeTable
Whitespace == {" ", "\n", "\r"}

RECURSIVE lstrip(_)
\* str.lstrip()
lstrip(s) ==
  IF s # <<>> /\ Head(s) \in Whitespace THEN lstrip(Tail(s)) ELSE s

RECURSIVE rstrip(_)
\* str.rstrip()
rstrip(s) ==
  IF s # <<>> /\ s[Len(s)] \in Whitespace
  THEN rstrip(SubSeq(s, 1, Len(s) - 1))
  ELSE s

\* str.strip()
strip(s) == rstrip(lstrip(s))

\* data[:1]
FirstChar(s) == SubSeq(s, 1, IF Len(s) < 1 THEN Len(s) ELSE 1)

CRLF == <<"\r", "\n">>

\* the messages of the protocol, as text
USB    == <<"U", "S", "B">>
RESET  == <<"R", "E", "S", "E", "T">>
IVQ    == <<"I", "V", "?">>
IRS055 == <<"I", "R", "S", "0", "5", "5">>
IRS1A9 == <<"I", "R", "S", "1", "A", "9">>
IRS140 == <<"I", "R", "S", "1", "4", "0">>
PING   == <<"P", "I", "N", "G">>
SS     == <<"S", "S">>
SE     == <<"S", "E">>
P1     == <<"P", "1">>

\* the messages the recorder sends: b'USB\r\n', b'RESET\r\n', b'IV?\r\n',
\* b'IRS055\r\n' (total distance), b'IRS1A9\r\n' (stroke rate) and
\* b'IRS140\r\n' (total strokes)
b_USB    == Bytes(USB \o CRLF)
b_RESET  == Bytes(RESET \o CRLF)
b_IVQ    == Bytes(IVQ \o CRLF)
b_IRS055 == Bytes(IRS055 \o CRLF)
b_IRS1A9 == Bytes(IRS1A9 \o CRLF)
b_IRS140 == Bytes(IRS140 \o CRLF)

(***************************************************************************)
(* Python dicts.                                                           *)
(***************************************************************************)
EmptyDict == << >>

\* d[k] = v
SetItem(d, k, v) ==
  [x \in (DOMAIN d) \cup {k} |-> IF x = k THEN v ELSE d[x]]


(***************************************************************************)
(* The state.                                                              *)
(***************************************************************************)
VARIABLES
  self,      \* the RecordInterface: its attributes
  twin,      \* a second RecordInterface, constructed with the same
             \* reset_interface and given the same calls
  now,       \* the last value time.time() returned
  received,  \* the chunks passed to data_received so far, in order
  wire,      \* bytes the device has sent that no chunk has delivered yet
  stream     \* the messages the device sent on the wire, in order

vars == <<self, twin, now, received, wire, stream>>

(***************************************************************************)
(* RecordInterface.                                                        *)
(***************************************************************************)
\* RecordInterface.__init__
RecordInterface(reset_interface, record_pulse, record_ping, output_file) ==
  [ reset_interface |-> reset_interface,
    record_pulse    |-> record_pulse,
    record_ping     |-> record_ping,
    output_file     |-> output_file,
    record          |-> [write |-> EmptyDict, read |-> EmptyDict] ]

\* the serial transport handed to connection_made: the messages written to
\* it and the number of close() calls
SerialTransport == [written |-> <<>>, closed |-> 0]

\* the output file: the documents written to it
OutputFile == <<>>

\* self.record[key] raises KeyError
KeyError(obj, key) == key \notin DOMAIN obj.record

\* RecordInterface.write; t is the value time.time() returns.  The caller
\* has checked that self.record["write"] exists.
write(obj, message, t) ==
  [obj EXCEPT
     !.record = [@ EXCEPT !["write"] =
                    SetItem(@, t - obj.start_time, strip(decode(message)))],
     !.transport = [@ EXCEPT !.written = Append(@, message)]]

\* a variant of connection_made that sends 'IV?' before 'RESET'
connection_made_swapped(obj, transport, ts) ==
  LET s0 == [start_time |-> ts[1], transport |-> transport] @@ obj
      s1 == write(s0, b_USB, ts[2])
      s2 == write(s1, b_IVQ, ts[3])
  IN  IF obj.reset_interface THEN write(s2, b_RESET, ts[4]) ELSE s2

\* RecordInterface.connection_made; ts are the values of the successive
\* reads of time.time()
connection_made(obj, transport, ts) ==
  LET s0 == [start_time |-> ts[1], transport |-> transport] @@ obj
      s1 == write(s0, b_USB, ts[2])
      s2 == IF obj.reset_interface THEN write(s1, b_RESET, ts[3]) ELSE s1
  IN  write(s2, b_IVQ, IF obj.reset_interface THEN ts[4] ELSE ts[3])

\* line 59: self.record["read"][time.time() - self.start_time] = data
add_row(obj, data, t) ==
  IF KeyError(obj, "read")
  THEN obj
  ELSE [obj EXCEPT !.record = [@ EXCEPT !["read"] =
                                  SetItem(@, t - obj.start_time, data)]]

\* lines 49-55: the three queries sent when a stroke has ended
stroke_ended(obj, ts) ==
  LET s1 == write(obj, b_IRS055, ts[1])
      s2 == write(s1, b_IRS1A9, ts[2])
  IN  write(s2, b_IRS140, ts[3])

\* a variant of line 41 that takes the test for a recorder that records pings
ping_dropped_inverted(obj, data) == data = PING /\ obj.record_ping

\* a variant of line 41 that drops every line of a recorder that records no
\* pings
ping_dropped_any(obj, data) == data = PING \/ ~obj.record_ping

\* line 41: if data == "PING" and not self.record_ping
ping_dropped(obj, data) == data = PING /\ ~obj.record_ping

\* a variant of line 44 that compares the whole line with "P"
pulse_dropped_whole(obj, data) == data = <<"P">> /\ ~obj.record_pulse

\* a variant of line 44 that drops pulse lines whatever record_pulse is
pulse_dropped_always(obj, data) == FirstChar(data) = <<"P">>

\* line 44: if data[:1] == "P" and not self.record_pulse
pulse_dropped(obj, data) == FirstChar(data) = <<"P">> /\ ~obj.record_pulse

\* a variant of line 49 that takes "SS" for the end of a stroke too
stroke_end_or_start(data) == data \in {SS, SE}

\* line 49: if data == "SE"
stroke_end(data) == data = SE

\* lines 41-59 of data_received: what it does with the decoded, stripped
\* line; a KeyError leaves the handler where it is raised
handle_line(obj, data, ts) ==
  IF ping_dropped(obj, data)
  THEN obj
  ELSE IF pulse_dropped(obj, data)
  THEN obj
  ELSE IF stroke_end(data)
  THEN IF KeyError(obj, "write")
       THEN obj
       ELSE LET sent == stroke_ended(obj, ts)
            IN  add_row(sent, data, ts[Len(ts)])
  ELSE add_row(obj, data, ts[1])

\* a variant of data_received that decodes with errors='replace'
data_received_replace(obj, bytes, ts) ==
  IF ~Decodable(bytes)
  THEN handle_line(obj, <<"?">>, ts)
  ELSE handle_line(obj, strip(decode(bytes)), ts)

\* RecordInterface.data_received; the UnicodeDecodeError of line 40 leaves
\* the handler before it has changed anything
data_received(obj, bytes, ts) ==
  IF ~Decodable(bytes)
  THEN obj
  ELSE handle_line(obj, strip(decode(bytes)), ts)

(***************************************************************************)
(* json.dumps and json.loads, as far as the logs go: a float key becomes   *)
(* the string float.__repr__ gives, a message a quoted, escaped string.    *)
(***************************************************************************)
DigitChars == <<"0", "1", "2", "3", "4", "5", "6", "7", "8", "9">>

RECURSIVE NatStr(_)
\* the decimal digits of a natural number
NatStr(n) ==
  IF n < 10
  THEN <<DigitChars[n + 1]>>
  ELSE NatStr(n \div 10) \o <<DigitChars[(n % 10) + 1]>>

\* float.__repr__ of an offset (a whole number of clock ticks): "2.0"
float_repr(x) == NatStr(x) \o <<".", "0">>

RECURSIVE StrNat(_, _)
\* the number a sequence of digits denotes, after the digits of acc
StrNat(acc, digits) ==
  IF digits = <<>>
  THEN acc
  ELSE StrNat(10 * acc + (CHOOSE d \in 0..9 : DigitChars[d + 1] = Head(digits)),
              Tail(digits))

\* float(key) of a key float_repr wrote: the digits before ".0"
float_parse(key) == StrNat(0, SubSeq(key, 1, Len(key) - 2))

\* the characters a JSON string escapes, among those the logs can hold
Escapes == { <<"\r", "r">>, <<"\n", "n">>, <<"\"", "\"">>, <<"\\", "\\">> }

RECURSIVE escape(_)
\* the body of the JSON string of a text
escape(text) ==
  IF text = <<>>
  THEN <<>>
  ELSE LET c == Head(text) IN
       (IF \E e \in Escapes : e[1] = c
        THEN <<"\\", (CHOOSE e \in Escapes : e[1] = c)[2]>>
        ELSE <<c>>) \o escape(Tail(text))

RECURSIVE unescape(_)
\* the text of the body of a JSON string
unescape(body) ==
  IF body = <<>>
  THEN <<>>
  ELSE IF Head(body) = "\\"
  THEN <<(CHOOSE e \in Escapes : e[2] = body[2])[1]>>
         \o unescape(SubSeq(body, 3, Len(body)))
  ELSE <<Head(body)>> \o unescape(Tail(body))

\* json.dumps of a message
dumps_str(text) == <<"\"">> \o escape(text) \o <<"\"">>

\* json.loads of a JSON string
loads_str(quoted) == unescape(SubSeq(quoted, 2, Len(quoted) - 1))

\* json.dumps of a time-keyed dict: a JSON object, the members
\* <<key string, value string>> (a later member of the same key replaces
\* an earlier one when the object is parsed)
dumps_dict(d) ==
  { <<float_repr(k), dumps_str(d[k])>> : k \in DOMAIN d }

\* json.loads of such an object: a dict from key strings to messages
loads_dict(members) ==
  [key \in { m[1] : m \in members } |->
     loads_str((CHOOSE m \in members : m[1] = key)[2])]

\* json.dumps(self.record, sort_keys=True, ...): the document
dumps(record) ==
  ("00_header" :> record["00_header"])
  @@
  ("01_data" :>
     (("00_write" :> dumps_dict(record["01_data"]["00_write"]))
      @@ ("01_read" :> dumps_dict(record["01_data"]["01_read"]))))

\* json.loads of the document
loads(document) ==
  ("00_header" :> document["00_header"])
  @@
  ("01_data" :>
     (("00_write" :> loads_dict(document["01_data"]["00_write"]))
      @@ ("01_read" :> loads_dict(document["01_data"]["01_read"]))))

\* a variant of end_session that files the read log under 00_write and the
\* write log under 01_read
end_session_swapped(obj, t) ==
  LET closed == [obj EXCEPT !.transport = [@ EXCEPT !.closed = @ + 1]] IN
  IF KeyError(obj, "read") \/ KeyError(obj, "write")
  THEN closed
  ELSE
    LET sealed ==
          ("00_header" :>
              [recording |-> [start |-> obj.start_time, end |-> t]])
          @@
          ("01_data" :>
              (("01_read" :> obj.record["write"])
               @@ ("00_write" :> obj.record["read"])))
    IN [closed EXCEPT !.record = sealed,
                      !.output_file = Append(@, dumps(sealed))]

\* a variant of end_session that adds the header and the data to the
\* record it has, without line 66 (self.record = dict())
end_session_keep(obj, t) ==
  LET closed == [obj EXCEPT !.transport = [@ EXCEPT !.closed = @ + 1]]
      sealed ==
          ("00_header" :>
              [recording |-> [start |-> obj.start_time, end |-> t]])
          @@
          ("01_data" :>
              (("01_read" :> obj.record["read"])
               @@ ("00_write" :> obj.record["write"])))
  IN [closed EXCEPT !.record = sealed @@ obj.record,
                    !.output_file = Append(@, dumps(sealed))]

\* RecordInterface.end_session; t is the value time.time() returns
end_session(obj, t) ==
  LET closed == [obj EXCEPT !.transport = [@ EXCEPT !.closed = @ + 1]] IN
  IF KeyError(obj, "read") \/ KeyError(obj, "write")
  THEN closed
  ELSE
    LET sealed ==
          ("00_header" :>
              [recording |-> [start |-> obj.start_time, end |-> t]])
          @@
          ("01_data" :>
              (("01_read" :> obj.record["read"])
               @@ ("00_write" :> obj.record["write"])))
    IN [closed EXCEPT !.record = sealed,
                      !.output_file = Append(@, dumps(sealed))]


(***************************************************************************)
(* The environment: the clock, the event loop and the device.              *)
(***************************************************************************)
RECURSIVE ReadsFrom(_, _)
\* the values n successive reads of time.time() can return after it
\* returned t: the clock never goes backwards, and two reads can return the
\* same value
ReadsFrom(t, n) ==
  IF n = 0
  THEN { <<>> }
  ELSE UNION { { <<u>> \o rest : rest \in ReadsFrom(u, n - 1) } :
               u \in {t, t + 1} \cap (0..MaxTime) }

\* the values the next n reads of time.time() can return
ClockReads(n) == ReadsFrom(now, n)

\* the lines the device sends
DeviceLines == {PING, P1, SS, SE}

\* the chunks the transport passes to data_received when it delivers one
\* line per chunk, and a chunk that is no UTF-8 text
Chunks == { Bytes(line \o CRLF) : line \in DeviceLines } \cup { <<BadByte>> }

\* connection_made has been called
Connected(obj) == "transport" \in DOMAIN obj

\* the calls of data_received and end_session so far
Calls == Len(received) + (IF Connected(self) THEN self.transport.closed ELSE 0)

\* the recorders as record() constructs them; the clock's origin is the
\* moment the session starts
Start(reset, pulse, ping, pulse2, ping2) ==
  /\ self = RecordInterface(reset, pulse, ping, OutputFile)
  /\ twin = RecordInterface(reset, pulse2, ping2, OutputFile)
  /\ now = 0
  /\ received = <<>>

Init ==
  /\ \E reset \in BOOLEAN, pulse \in BOOLEAN, ping \in BOOLEAN :
       Start(reset, pulse, ping, pulse, ping)
  /\ wire = <<>>
  /\ stream = <<>>

\* the event loop calls connection_made once, before anything else
ConnectionMade ==
  /\ ~Connected(self)
  /\ \E ts \in ClockReads(IF self.reset_interface THEN 4 ELSE 3) :
       /\ ts[1] = now
       /\ self' = connection_made(self, SerialTransport, ts)
       /\ twin' = connection_made(twin, SerialTransport, ts)
       /\ now' = ts[Len(ts)]
  /\ UNCHANGED <<received, wire, stream>>

\* the number of times data_received reads the clock for a chunk that it
\* neither drops nor fails on: three sends and the row for "SE", else the row
Reads(bytes) ==
  IF Decodable(bytes) /\ stroke_end(strip(decode(bytes))) THEN 4 ELSE 1

\* the transport passes one chunk to data_received
Receive(bytes) ==
  /\ Connected(self)
  /\ \E ts \in ClockReads(Reads(bytes)) :
       /\ self' = data_received(self, bytes, ts)
       /\ twin' = data_received(twin, bytes, ts)
       /\ now' = ts[Len(ts)]
  /\ received' = Append(received, bytes)

DataReceived ==
  /\ Calls < MaxCalls
  /\ \E bytes \in Chunks : Receive(bytes)
  /\ UNCHANGED <<wire, stream>>

\* record() calls end_session when the loop is interrupted
EndSession ==
  /\ Connected(self)
  /\ Calls < MaxCalls
  /\ \E ts \in ClockReads(1) :
       /\ self' = end_session(self, ts[1])
       /\ twin' = end_session(twin, ts[1])
       /\ now' = ts[1]
  /\ UNCHANGED <<received, wire, stream>>

Next == ConnectionMade \/ DataReceived \/ EndSession

Spec == Init /\ [][Next]_vars

(***************************************************************************)
(* Two recorders that differ in their recording filters only.              *)
(***************************************************************************)
InitTwin ==
  /\ \E reset \in BOOLEAN, pulse \in BOOLEAN, ping \in BOOLEAN,
        pulse2 \in BOOLEAN, ping2 \in BOOLEAN :
       /\ <<pulse, ping>> # <<pulse2, ping2>>
       /\ Start(reset, pulse, ping, pulse2, ping2)
  /\ wire = <<>>
  /\ stream = <<>>

SpecTwin == InitTwin /\ [][Next]_vars


(***************************************************************************)
(* Framing: the device writes CRLF-delimited messages, the serial          *)
(* transport reads whatever bytes have arrived and passes them on.         *)
(***************************************************************************)
RECURSIVE Wire(_)
\* the bytes of a sequence of messages, each followed by CRLF
Wire(messages) ==
  IF messages = <<>>
  THEN <<>>
  ELSE Bytes(Head(messages) \o CRLF) \o Wire(Tail(messages))

\* the lines the device sends in the framing runs
StreamLines == {P1, SS, SE}

\* the sequences of at most n of these lines
Streams(n) == UNION { [1..k -> StreamLines] : k \in 0..n }

InitFraming ==
  /\ \E reset \in BOOLEAN, pulse \in BOOLEAN, ping \in BOOLEAN :
       Start(reset, pulse, ping, pulse, ping)
  /\ stream \in Streams(MaxStream)
  /\ wire = Wire(stream)

\* the transport reads the first k bytes that have arrived and passes them
\* to data_received
Deliver ==
  /\ \E k \in 1..Len(wire) :
       /\ Receive(SubSeq(wire, 1, k))
       /\ wire' = SubSeq(wire, k + 1, Len(wire))
  /\ UNCHANGED stream

NextFraming == ConnectionMade \/ Deliver

SpecFraming == InitFraming /\ [][NextFraming]_vars


(***************************************************************************)
(* What the claims speak of.                                               *)
(***************************************************************************)
\* the outbound log: record["write"], after end_session 01_data/00_write
WriteLog(obj) ==
  IF KeyError(obj, "write")
  THEN obj.record["01_data"]["00_write"]
  ELSE obj.record["write"]

\* the inbound log: record["read"], after end_session 01_data/01_read
ReadLog(obj) ==
  IF KeyError(obj, "read")
  THEN obj.record["01_data"]["01_read"]
  ELSE obj.record["read"]

\* the messages passed to transport.write, in order
Sent(obj) == IF Connected(obj) THEN obj.transport.written ELSE <<>>

\* end_session has not been called
Open(obj) == Connected(obj) /\ obj.transport.closed = 0

RECURSIVE Payloads(_)
\* the payloads of a log in the order of their offsets
Payloads(log) ==
  IF DOMAIN log = {}
  THEN <<>>
  ELSE LET first == CHOOSE k \in DOMAIN log : \A j \in DOMAIN log : k <= j
       IN  <<log[first]>> \o Payloads([k \in DOMAIN log \ {first} |-> log[k]])

\* the payloads a log holds
Held(log) == { log[k] : k \in DOMAIN log }

IsPrefix(s, t) == Len(s) <= Len(t) /\ SubSeq(t, 1, Len(s)) = s

\* the line data_received decodes from a chunk
Line(bytes) == strip(decode(bytes))

\* this step is a call of data_received, and the line it decodes
Handled == Len(received') = Len(received) + 1
LastLine == Line(received'[Len(received')])
HandledLine(line) ==
  /\ Handled
  /\ Decodable(received'[Len(received')])
  /\ LastLine = line

\* the startup messages and their log entries
StartupSent(obj) ==
  IF obj.reset_interface THEN <<b_USB, b_RESET, b_IVQ>> ELSE <<b_USB, b_IVQ>>
StartupLogged(obj) ==
  IF obj.reset_interface THEN <<USB, RESET, IVQ>> ELSE <<USB, IVQ>>


(***************************************************************************)
(* The claims.                                                             *)
(***************************************************************************)
\* C1: while the session is open, handling a received line "SE" sends
\* exactly the three queries IRS055, IRS1A9, IRS140, in that order, and
\* appends exactly these three entries, in that order, to the write log,
\* under every setting of record_pulse and record_ping.
C1_StrokeEndSendsAndLogsThree ==
  [][ (Open(self) /\ HandledLine(SE)) =>
        /\ Sent(self') = Sent(self) \o <<b_IRS055, b_IRS1A9, b_IRS140>>
        /\ Payloads(WriteLog(self')) =
             Payloads(WriteLog(self)) \o <<IRS055, IRS1A9, IRS140>> ]_vars

\* C2: connection_made sends exactly "USB", "RESET" iff reset_interface,
\* "IV?", in that order: they are all that has been sent until data is
\* received, they stay the first messages sent, and no data is handled
\* before connection_made.
C2_StartupMessagesSent ==
  /\ ~Connected(self) => received = <<>> /\ Sent(self) = <<>>
  /\ Connected(self) =>
       /\ IsPrefix(StartupSent(self), Sent(self))
       /\ received = <<>> => Sent(self) = StartupSent(self)

\* C2 witness: a recorder constructed to reset has connected and no data
\* has arrived yet
C2_Witness ==
  /\ Connected(self)
  /\ self.reset_interface
  /\ received = <<>>
  /\ Len(Sent(self)) = 3

\* C3: once connected, the write log begins, in the order of its offsets,
\* with "USB", "RESET" iff reset_interface, "IV?" (distinct entries at
\* strictly increasing offsets), whatever values the clock returns.
C3_StartupLogged ==
  Connected(self) => IsPrefix(StartupLogged(self), Payloads(WriteLog(self)))


\* C4: once every byte of a stream of well-formed CRLF-delimited messages
\* has been delivered, under whatever partition into chunks, the lines
\* data_received decoded are exactly the messages of the stream, in order.
C4_FramingCorrect ==
  wire = <<>> =>
    /\ \A i \in 1..Len(received) : Decodable(received[i])
    /\ [i \in 1..Len(received) |-> Line(received[i])] = stream

\* C5: when record_ping is false, the read log holds no entry whose
\* payload is "PING".
C5_NoPingLogged ==
  ~self.record_ping => PING \notin Held(ReadLog(self))

\* C5 witness: a recorder that records pulse lines but no pings has been
\* given "PING" and has logged another line
C5_Witness ==
  /\ ~self.record_ping
  /\ self.record_pulse
  /\ \E i \in 1..Len(received) : received[i] = Bytes(PING \o CRLF)
  /\ P1 \in Held(ReadLog(self))

C7_Original ==
  [][ ( /\ Open(self)
        /\ self.record_pulse
        /\ Handled
        /\ Decodable(received'[Len(received')])
        /\ FirstChar(LastLine) = <<"P">> ) =>
      LastLine \in Held(ReadLog(self')) ]_vars

\* C7 as amended: when record_pulse is true and the session is open,
\* handling a received line that starts with "P", other than "PING" with
\* record_ping false, enters the line in the read log under the offset of
\* the clock value read for it.
C7_PulseLogged ==
  [][ ( /\ Open(self)
        /\ self.record_pulse
        /\ Handled
        /\ Decodable(received'[Len(received')])
        /\ FirstChar(LastLine) = <<"P">>
        /\ ~(LastLine = PING /\ ~self.record_ping) ) =>
      /\ now' - self.start_time \in DOMAIN ReadLog(self')
      /\ ReadLog(self')[now' - self.start_time] = LastLine ]_vars

\* C7 witness: a recorder that records pulse lines holds "P1" and "PING"
C7_Witness ==
  /\ self.record_pulse
  /\ Open(self)
  /\ {P1, PING} \subseteq Held(ReadLog(self))

\* C8: when record_ping is true and the session is open, handling a
\* received "PING" enters it in the read log, whatever record_pulse is.
C8_PingLogged ==
  [][ (Open(self) /\ self.record_ping /\ HandledLine(PING)) =>
        PING \in Held(ReadLog(self')) ]_vars

\* C9: two recorders constructed with the same reset_interface and given
\* the same calls, with different record_pulse / record_ping, have sent
\* the same messages to their transports.
C9_SentIndependentOfFilters ==
  Sent(self) = Sent(twin)

\* C9 witness: the recorders differ in record_ping, and they have been
\* given "PING" and then "SE"
C9_Witness ==
  /\ self.record_ping # twin.record_ping
  /\ Len(received) = 2
  /\ received[1] = Bytes(PING \o CRLF)
  /\ received[2] = Bytes(SE \o CRLF)
  /\ Len(Sent(self)) > Len(StartupSent(self))

\* C10: the write log has one entry for every message passed to
\* transport.write.
C10_EverySendLogged ==
  Cardinality(DOMAIN WriteLog(self)) = Len(Sent(self))


\* end_session has restructured the record (lines 66-68)
Sealed(obj) == "00_header" \in DOMAIN obj.record

\* this step is a call of end_session
Ended == Connected(self) /\ self'.transport.closed = self.transport.closed + 1

\* C11: once end_session has sealed the record, a later data_received, for
\* any chunk ("SE" and filtered lines included), leaves the record (header,
\* read log and write log) exactly as end_session left it.
C11_SealedRecordKept ==
  [][ (Sealed(self) /\ Handled) => self'.record = self.record ]_vars

\* C11 witness: "SE" has been received after end_session: the record is
\* sealed with an empty read log
C11_Witness ==
  /\ Sealed(self)
  /\ received = <<Bytes(SE \o CRLF)>>
  /\ ReadLog(self) = EmptyDict

\* C12: a call of end_session on a sealed record changes neither the
\* record nor the output, and the output is written at most once.
C12_EndSessionOnce ==
  [][ /\ Len(self'.output_file) <= 1
      /\ (Sealed(self) /\ Ended) =>
           /\ self'.record = self.record
           /\ self'.output_file = self.output_file ]_vars

\* C12 witness: end_session has been called twice
C12_Witness ==
  /\ Connected(self)
  /\ self.transport.closed = 2
  /\ Len(self.output_file) = 1


\* C13: a chunk that fails UTF-8 decoding is dropped: data_received leaves
\* the recorder as it was (both logs, the messages sent, the output), so
\* the lines received afterwards are handled as if it had never arrived.
C13_UndecodableChunkDropped ==
  [][ (Handled /\ ~Decodable(received'[Len(received')])) =>
        self' = self ]_vars

\* C13 witness: after an undecodable chunk, "SE" has been received,
\* retained and answered with the three queries
C13_Witness ==
  /\ received = <<<<BadByte>>, Bytes(SE \o CRLF)>>
  /\ Held(ReadLog(self)) = {SE}
  /\ Len(Sent(self)) = Len(StartupSent(self)) + 3


\* the (offset, message) pairs of a log
Pairs(log) == { <<k, log[k]>> : k \in DOMAIN log }

\* the (offset, message) pairs of a parsed JSON object
OffsetPairs(parsed) ==
  { <<float_parse(key), parsed[key]>> : key \in DOMAIN parsed }

\* C14: the document end_session writes, parsed back, holds under
\* 01_data/00_write and 01_data/01_read exactly the (offset, message) pairs
\* the write and read logs held when end_session was called.
C14_RoundTrip ==
  [][ (Ended /\ ~Sealed(self)) =>
        /\ Len(self'.output_file) = Len(self.output_file) + 1
        /\ LET parsed == loads(self'.output_file[Len(self'.output_file)]) IN
           /\ OffsetPairs(parsed["01_data"]["00_write"])
                = Pairs(self.record["write"])
           /\ OffsetPairs(parsed["01_data"]["01_read"])
                = Pairs(self.record["read"]) ]_vars

\* C14 witness: a document has been written for a session whose logs hold
\* entries at more than one offset
C14_Witness ==
  /\ Len(self.output_file) = 1
  /\ Cardinality(DOMAIN WriteLog(self)) >= 2
  /\ ReadLog(self) # EmptyDict


\* a line the ping filter or the pulse filter drops
Filtered(obj, line) ==
  \/ line = PING /\ ~obj.record_ping
  \/ FirstChar(line) = <<"P">> /\ ~obj.record_pulse

\* the received chunks that decode to a line the filters let pass
Retained(obj) ==
  { i \in 1..Len(received) :
      Decodable(received[i]) /\ ~Filtered(obj, Line(received[i])) }

\* C15: before the record is sealed, the read log has one entry for every
\* received line that passed the ping and pulse filters, also when two
\* lines are received at the same clock value.
C15_EveryRetainedLineLogged ==
  (Connected(self) /\ ~Sealed(self)) =>
    Cardinality(DOMAIN ReadLog(self)) = Cardinality(Retained(self))

\* C16: retention before trigger: when an open session handles "SE", the
\* offset of its read-log entry is at most the offset of each write-log
\* entry its three queries make.
C16_RetentionBeforeTrigger ==
  [][ (Open(self) /\ HandledLine(SE)) =>
        LET offset == now' - self.start_time
            queries ==
              { k \in DOMAIN WriteLog(self') :
                  \/ k \notin DOMAIN WriteLog(self)
                  \/ WriteLog(self')[k] # WriteLog(self)[k] }
        IN  /\ offset \in DOMAIN ReadLog(self')
            /\ ReadLog(self')[offset] = SE
            /\ \A k \in queries : offset <= k ]_vars

\* C17: handling a received line other than "SE" sends nothing and leaves
\* the write log as it was, and when a filter drops the line the read log
\* is left as it was too.
C17_OnlyStrokeEndTriggers ==
  [][ ( /\ Connected(self)
        /\ Handled
        /\ Decodable(received'[Len(received')])
        /\ LastLine # SE ) =>
      /\ Sent(self') = Sent(self)
      /\ WriteLog(self') = WriteLog(self)
      /\ Filtered(self, LastLine) => ReadLog(self') = ReadLog(self) ]_vars

\* C17 witness: "SS" has been received and retained, then "PING" received
\* and dropped, and nothing but the startup messages has been sent
C17_Witness ==
  /\ Open(self)
  /\ ~self.record_ping
  /\ received = <<Bytes(SS \o CRLF), Bytes(PING \o CRLF)>>
  /\ Held(ReadLog(self)) = {SS}
  /\ Sent(self) = StartupSent(self)

\* C18: once end_session has closed the transport, no message is passed to
\* transport.write again, whatever is received.
C18_NothingSentAfterClose ==
  [][ (Connected(self) /\ self.transport.closed >= 1) =>
        Sent(self') = Sent(self) ]_vars

\* C18 witness: "SE" has been received after the transport was closed, and
\* only the startup messages have been sent
C18_Witness ==
  /\ Connected(self)
  /\ self.transport.closed = 1
  /\ received = <<Bytes(SE \o CRLF)>>
  /\ Sent(self) = StartupSent(self)

=============================================================================
